---- MODULE Spec2Model ----
(***************************************************************************)
(* A model of src/github.rs: the GitHub API client (GitHubApi) with its    *)
(* request builder (prepare), GraphQL executor (graphql), REST lookup      *)
(* (user), the batched id -> login resolver (usernames) and the node-id    *)
(* encoder (user_node_id).                                                 *)
(*                                                                         *)
(* The calls are blocking; the model splits each call at the points where  *)
(* it waits for the network, so that the requests in flight and the order  *)
(* of sends, receives and merges are visible.                              *)
(***************************************************************************)
EXTENDS Integers, Sequences, FiniteSets, TLC

VARIABLES
    token,    \* GitHubApi.token : Option<String>, fixed at construction
    call,     \* the call in progress: its name and arguments
    pc,       \* position of the call: idle, loop, wait, got, done
    pos,      \* usernames: how many ids the chunks iterator has handed out
    result,   \* usernames: the HashMap being built
    merged,   \* usernames: number of chunks whose nodes have been merged
    net,      \* requests sent and not yet answered
    sent,     \* every request sent by the call, in order
    resp,     \* the response the call last received
    gres,     \* what graphql returned for that response
    ret       \* what the call returned to its caller

vars == <<token, call, pc, pos, result, merged, net, sent, resp, gres, ret>>

----------------------------------------------------------------------------
(* Option and Result values *)

None == [some |-> FALSE]
Some(v) == [some |-> TRUE, val |-> v]

Ok(v) == [ok |-> TRUE, val |-> v]
Err(kind, msg) == [ok |-> FALSE, kind |-> kind, msg |-> msg]

----------------------------------------------------------------------------
(* Program constants *)

API_BASE == "https://api.github.com/"
TOKEN_VAR == "GITHUB_TOKEN"
QUERY ==
    "\n"
    \o "            query($ids: [ID!]!) {\n"
    \o "                nodes(ids: $ids) {\n"
    \o "                    ... on User {\n"
    \o "                        databaseId\n"
    \o "                        login\n"
    \o "                    }\n"
    \o "                }\n"
    \o "            }\n"
    \o "        "

\* ids.chunks(100)
ChunkSize == 100

----------------------------------------------------------------------------
(* Bounds of the model *)

\* longest identifier list passed to usernames
MaxLen == 201
\* longest node list in a GraphQL response
MaxNodes == 2
\* longest errors array in a GraphQL response
MaxErrors == 2
\* the second family of identifier lists cycles through 1..IdMod
IdMod == 3

----------------------------------------------------------------------------
(* Strings *)

StartsWith(s, prefix) ==
    /\ Len(s) >= Len(prefix)
    /\ SubSeq(s, 1, Len(prefix)) = prefix

\* A String that goes into a header is modelled by its bytes, so that the
\* control characters are expressible.

\* the bytes of "token ", the scheme of format!("token {}", token)
TokenScheme == <<116, 111, 107, 101, 110, 32>>

\* HeaderValue::from_str: every byte b must satisfy
\* b >= 32 && b != 127 || b == '\t'
HeaderValueOk(bytes) ==
    \A i \in 1..Len(bytes) :
        (bytes[i] >= 32 /\ bytes[i] # 127) \/ bytes[i] = 9

----------------------------------------------------------------------------
(* user_node_id: base64 of "04:User<id>" *)

B64 == << "A","B","C","D","E","F","G","H","I","J","K","L","M",
          "N","O","P","Q","R","S","T","U","V","W","X","Y","Z",
          "a","b","c","d","e","f","g","h","i","j","k","l","m",
          "n","o","p","q","r","s","t","u","v","w","x","y","z",
          "0","1","2","3","4","5","6","7","8","9","+","/" >>

\* the bytes of "04:User"
NodePrefix == <<48, 52, 58, 85, 115, 101, 114>>

RECURSIVE DecimalBytes(_)
DecimalBytes(n) ==
    IF n < 10 THEN <<48 + n>>
    ELSE DecimalBytes(n \div 10) \o <<48 + (n % 10)>>

RECURSIVE Base64(_)
Base64(bytes) ==
    IF Len(bytes) = 0 THEN ""
    ELSE LET n  == Len(bytes)
             b1 == bytes[1]
             b2 == IF n >= 2 THEN bytes[2] ELSE 0
             b3 == IF n >= 3 THEN bytes[3] ELSE 0
         IN  B64[(b1 \div 4) + 1]
             \o B64[((b1 % 4) * 16 + (b2 \div 16)) + 1]
             \o (IF n >= 2 THEN B64[((b2 % 16) * 4 + (b3 \div 64)) + 1] ELSE "=")
             \o (IF n >= 3 THEN B64[(b3 % 64) + 1] ELSE "=")
             \o (IF n > 3 THEN Base64(SubSeq(bytes, 4, n)) ELSE "")

user_node_id(id) == Base64(NodePrefix \o DecimalBytes(id))

----------------------------------------------------------------------------
(* Request Builder *)

\* Variant: require_auth that never fails.
require_auth_lenient(tok) == Ok("unit")

\* GitHubApi::require_auth
require_auth(tok) ==
    IF ~tok.some
    THEN Err("config", "missing environment variable " \o TOKEN_VAR)
    ELSE Ok("unit")

\* Variant: the header is attached only to requests that require it.
prepare_auth_when_required(tok, ra, method, url) ==
    LET full == IF StartsWith(url, "https://") THEN url ELSE API_BASE \o url
        auth == require_auth(tok)
    IN  IF ra /\ ~auth.ok THEN auth
        ELSE IF tok.some /\ ra
        THEN IF HeaderValueOk(TokenScheme \o tok.val)
             THEN Ok([method |-> method, url |-> full,
                      authorization |-> Some(TokenScheme \o tok.val), body |-> None])
             ELSE Err("header", "failed to parse header value")
        ELSE Ok([method |-> method, url |-> full,
                 authorization |-> None, body |-> None])

\* GitHubApi::prepare: the request built, or the error returned
prepare(tok, ra, method, url) ==
    LET full == IF StartsWith(url, "https://") THEN url ELSE API_BASE \o url
        auth == require_auth(tok)
    IN  IF ra /\ ~auth.ok THEN auth
        ELSE IF tok.some
        THEN IF HeaderValueOk(TokenScheme \o tok.val)
             THEN Ok([method |-> method, url |-> full,
                      authorization |-> Some(TokenScheme \o tok.val), body |-> None])
             ELSE Err("header", "failed to parse header value")
        ELSE Ok([method |-> method, url |-> full,
                 authorization |-> None, body |-> None])

----------------------------------------------------------------------------
(* GraphQL Executor *)

\* graphql up to .json(&Request { query, variables }): the request to send
GraphqlRequest(tok, query, variables) ==
    LET p == prepare(tok, TRUE, "POST", "graphql")
    IN  IF p.ok
        THEN Ok([p.val EXCEPT !.body =
                    Some([query |-> query, variables |-> variables])])
        ELSE p

\* Variant: only server errors are errors.
StatusIsServerError(status) == status >= 500 /\ status <= 599

\* Response::error_for_status: 4xx and 5xx are errors
StatusIsError(status) == status >= 400 /\ status <= 599

\* Variant: data, when present, is returned before errors is looked at.
UnwrapDataFirst(res) ==
    IF res.data.some
    THEN Ok(res.data.val)
    ELSE IF Len(res.errors) > 0
    THEN Err("graphql", "graphql error: " \o res.errors[1].message)
    ELSE Err("missing", "missing graphql data")

\* the three-way branch on the decoded GraphResult
Unwrap(res) ==
    IF Len(res.errors) > 0
    THEN Err("graphql", "graphql error: " \o res.errors[1].message)
    ELSE IF res.data.some
    THEN Ok(res.data.val)
    ELSE Err("missing", "missing graphql data")

\* graphql from .send() on: what it returns for network outcome r
GraphqlResolve(r) ==
    IF r.kind = "error" THEN Err("send", "error sending request")
    ELSE IF StatusIsError(r.status) THEN Err("status", "HTTP status error")
    ELSE IF ~r.body.json THEN Err("decode", "error decoding response body")
    ELSE Unwrap(r.body.value)

\* user from .send() on
UserResolve(r) ==
    IF r.kind = "error" THEN Err("send", "error sending request")
    ELSE IF StatusIsError(r.status) THEN Err("status", "HTTP status error")
    ELSE IF ~r.body.json THEN Err("decode", "error decoding response body")
    ELSE Ok(r.body.value)

----------------------------------------------------------------------------
(* Batching Resolver helpers *)

Min(a, b) == IF a <= b THEN a ELSE b

\* Variant: chunks one identifier too long.
NextChunkTooLong(ids, p) == SubSeq(ids, p + 1, Min(p + ChunkSize + 1, Len(ids)))

\* the next item of ids.chunks(ChunkSize) after p ids have been handed out
NextChunk(ids, p) == SubSeq(ids, p + 1, Min(p + ChunkSize, Len(ids)))

\* Variant: the chunk is encoded back to front.
ParamsReversed(chunk) ==
    [ids |-> [i \in 1..Len(chunk) |-> user_node_id(chunk[Len(chunk) + 1 - i])]]

\* Params { ids: chunk.iter().map(|id| user_node_id(*id)).collect() }
Params(chunk) == [ids |-> [i \in 1..Len(chunk) |-> user_node_id(chunk[i])]]

\* Variant: a key already present keeps its value.
InsertIfAbsent(m, k, v) ==
    [x \in (DOMAIN m) \cup {k} |-> IF x \in DOMAIN m THEN m[x] ELSE v]

\* HashMap::insert
Insert(m, k, v) == [x \in (DOMAIN m) \cup {k} |-> IF x = k THEN v ELSE m[x]]

\* Variant: the loop over the nodes ends at the first absent node.
RECURSIVE MergeNodesUntilNull(_, _)
MergeNodesUntilNull(m, nodes) ==
    IF Len(nodes) = 0 \/ ~Head(nodes).some THEN m
    ELSE MergeNodesUntilNull(
            Insert(m, Head(nodes).val.database_id, Head(nodes).val.login),
            Tail(nodes))

\* for node in res.nodes.into_iter().flatten() { result.insert(..) }
RECURSIVE MergeNodes(_, _)
MergeNodes(m, nodes) ==
    IF Len(nodes) = 0 THEN m
    ELSE LET h == Head(nodes)
         IN  MergeNodes(IF h.some
                        THEN Insert(m, h.val.database_id, h.val.login)
                        ELSE m,
                        Tail(nodes))

----------------------------------------------------------------------------
(* Inputs: the environment, the arguments and the network's answers *)

SeqsUpTo(S, n) == UNION {[1..k -> S] : k \in 0..n}

\* values of the GITHUB_TOKEN variable: unset, usable, unusable in a header
\* (as bytes: "s3cr3t"; "bad\ntok", "ctl\x01tok" and "del\x7f", which no
\* header value may hold)
Tokens ==
    {None,
     Some(<<115, 51, 99, 114, 51, 116>>),
     Some(<<98, 97, 100, 10, 116, 111, 107>>),
     Some(<<99, 116, 108, 1, 116, 111, 107>>),
     Some(<<100, 101, 108, 127>>)}

Logins == {"octocat"}
Methods == {"GET", "POST"}
Urls == {"graphql", "users/octocat", "https://uploads.github.com/x"}

\* identifier lists: 1, 2, ..., n and a list with repeats, n, n-1, ... mod IdMod
Ascending(n) == [i \in 1..n |-> i]
Cycling(n) == [i \in 1..n |-> ((n - i) % IdMod) + 1]
IdLists(lens) == {Ascending(n) : n \in lens} \cup {Cycling(n) : n \in lens}

AllLens == 0..MaxLen
\* the lengths next to a chunk boundary
BoundaryLens == {n \in AllLens : (n % ChunkSize) \in {0, 1, ChunkSize - 1}}

AllLists == IdLists(AllLens)
BoundaryLists == IdLists(BoundaryLens)

Node(id, login) == Some([database_id |-> id, login |-> login])
NodeVals == {None, Node(1, "alice"), Node(1, "al"), Node(2, "bob")}
Messages == {[message |-> "first"], [message |-> "second"]}

Statuses == {200, 300, 404, 500}
Malformed == [json |-> FALSE]
Json(v) == [json |-> TRUE, value |-> v]
NetError == [kind |-> "error"]
Response(status, body) == [kind |-> "response", status |-> status, body |-> body]

\* decoded GraphResult<GraphNodes<Usernames>> bodies
Envelopes ==
    {[data |-> d, errors |-> e] :
        d \in {None} \cup {Some([nodes |-> ns]) : ns \in SeqsUpTo(NodeVals, MaxNodes)},
        e \in SeqsUpTo(Messages, MaxErrors)}

GraphqlResponses ==
    {NetError} \cup
    {Response(st, b) : st \in Statuses, b \in {Malformed} \cup {Json(v) : v \in Envelopes}}

\* a small set of answers, used with the identifier lists of every length
PlainEnvelopes ==
    {[data |-> d, errors |-> e] :
        d \in {None, Some([nodes |-> <<>>]), Some([nodes |-> <<Node(1, "alice")>>]),
               Some([nodes |-> <<None, Node(2, "bob")>>])},
        e \in {<<>>, <<[message |-> "first"]>>}}

PlainResponses ==
    {NetError, Response(500, Malformed), Response(200, Malformed)} \cup
    {Response(200, Json(v)) : v \in PlainEnvelopes}

Users ==
    {[id |-> 1, login |-> "octocat", name |-> Some("The Octocat"), email |-> None],
     [id |-> 2, login |-> "octocat", name |-> None, email |-> Some("o@github.com")]}

UserResponses ==
    {NetError} \cup
    {Response(st, b) : st \in Statuses, b \in {Malformed} \cup {Json(u) : u \in Users}}

GraphqlVariables == {Params(<<>>), Params(<<1>>)}

----------------------------------------------------------------------------
(* The state machine *)

\* the answer to the i-th request in flight has arrived
RemoveAt(s, i) == SubSeq(s, 1, i - 1) \o SubSeq(s, i + 1, Len(s))

\* GitHubApi::new
Init ==
    /\ token \in Tokens
    /\ call = [op |-> "none"]
    /\ pc = "idle"
    /\ pos = 0
    /\ result = <<>>
    /\ merged = 0
    /\ net = <<>>
    /\ sent = <<>>
    /\ resp = None
    /\ gres = None
    /\ ret = None

\* a caller invokes require_auth
CallRequireAuth ==
    /\ pc = "idle"
    /\ call' = [op |-> "require_auth"]
    /\ ret' = Some(require_auth(token))
    /\ pc' = "done"
    /\ UNCHANGED <<token, pos, result, merged, net, sent, resp, gres>>

\* prepare invoked on its own
CallPrepare(ra, method, url) ==
    /\ pc = "idle"
    /\ call' = [op |-> "prepare", require_auth |-> ra, method |-> method, url |-> url]
    /\ ret' = Some(prepare(token, ra, method, url))
    /\ pc' = "done"
    /\ UNCHANGED <<token, pos, result, merged, net, sent, resp, gres>>

\* user, up to .send()
CallUser(login) ==
    /\ pc = "idle"
    /\ call' = [op |-> "user", login |-> login]
    /\ LET p == prepare(token, FALSE, "GET", "users/" \o login)
       IN  IF p.ok
           THEN /\ net' = Append(net, p.val)
                /\ sent' = Append(sent, p.val)
                /\ pc' = "wait"
                /\ ret' = ret
           ELSE /\ ret' = Some(p)
                /\ pc' = "done"
                /\ UNCHANGED <<net, sent>>
    /\ UNCHANGED <<token, pos, result, merged, resp, gres>>

\* user, from the network's answer r to its return
UserReceive(r) ==
    /\ pc = "wait"
    /\ call.op = "user"
    /\ \E i \in 1..Len(net) : net' = RemoveAt(net, i)
    /\ resp' = Some(r)
    /\ ret' = Some(UserResolve(r))
    /\ pc' = "done"
    /\ UNCHANGED <<token, call, pos, result, merged, sent, gres>>

\* graphql, up to .send(): the request goes out, or prepare's error is
\* what graphql returns
GraphqlSend(query, variables) ==
    LET q == GraphqlRequest(token, query, variables)
    IN  IF q.ok
        THEN /\ net' = Append(net, q.val)
             /\ sent' = Append(sent, q.val)
             /\ pc' = "wait"
             /\ gres' = None
        ELSE /\ gres' = Some(q)
             /\ pc' = "got"
             /\ UNCHANGED <<net, sent>>

\* graphql invoked on its own
CallGraphql(variables) ==
    /\ pc = "idle"
    /\ call' = [op |-> "graphql", query |-> QUERY, variables |-> variables]
    /\ GraphqlSend(QUERY, variables)
    /\ UNCHANGED <<token, pos, result, merged, resp, ret>>

\* graphql, from the network's answer r to its result
GraphqlReceive(r) ==
    /\ pc = "wait"
    /\ call.op \in {"graphql", "usernames"}
    /\ \E i \in 1..Len(net) : net' = RemoveAt(net, i)
    /\ resp' = Some(r)
    /\ gres' = Some(GraphqlResolve(r))
    /\ pc' = "got"
    /\ UNCHANGED <<token, call, pos, result, merged, sent, ret>>

\* graphql returns to the caller that invoked it on its own
GraphqlReturn ==
    /\ pc = "got"
    /\ call.op = "graphql"
    /\ ret' = gres
    /\ pc' = "done"
    /\ UNCHANGED <<token, call, pos, result, merged, net, sent, resp, gres>>

\* usernames: let mut result = HashMap::new(); the chunks iterator is created
CallUsernames(ids) ==
    /\ pc = "idle"
    /\ call' = [op |-> "usernames", ids |-> ids]
    /\ result' = <<>>
    /\ pos' = 0
    /\ pc' = "loop"
    /\ UNCHANGED <<token, merged, net, sent, resp, gres, ret>>

\* Variant: the next chunk is sent without waiting for the answer to the
\* previous one.
UsernamesChunkEager ==
    /\ pc \in {"loop", "wait"}
    /\ call.op = "usernames"
    /\ pos < Len(call.ids)
    /\ LET chunk == NextChunk(call.ids, pos)
       IN  /\ pos' = pos + Len(chunk)
           /\ GraphqlSend(QUERY, Params(chunk))
    /\ UNCHANGED <<token, call, result, merged, resp, ret>>

\* usernames: the loop takes the next chunk and calls graphql with it
UsernamesChunk ==
    /\ pc = "loop"
    /\ call.op = "usernames"
    /\ pos < Len(call.ids)
    /\ LET chunk == NextChunk(call.ids, pos)
       IN  /\ pos' = pos + Len(chunk)
           /\ GraphqlSend(QUERY, Params(chunk))
    /\ UNCHANGED <<token, call, result, merged, resp, ret>>

\* Variant: a failed chunk ends the loop with what was merged so far.
UsernamesMergePartial ==
    /\ pc = "got"
    /\ call.op = "usernames"
    /\ IF gres.val.ok
       THEN /\ result' = MergeNodes(result, gres.val.val.nodes)
            /\ merged' = merged + 1
            /\ pc' = "loop"
            /\ resp' = None
            /\ gres' = None
            /\ ret' = ret
       ELSE /\ ret' = Some(Ok(result))
            /\ pc' = "done"
            /\ UNCHANGED <<result, merged, resp, gres>>
    /\ UNCHANGED <<token, call, pos, net, sent>>

\* usernames: graphql(..)? and the inner loop over the nodes
UsernamesMerge ==
    /\ pc = "got"
    /\ call.op = "usernames"
    /\ IF gres.val.ok
       THEN /\ result' = MergeNodes(result, gres.val.val.nodes)
            /\ merged' = merged + 1
            /\ pc' = "loop"
            /\ resp' = None
            /\ gres' = None
            /\ ret' = ret
       ELSE /\ ret' = Some(gres.val)
            /\ pc' = "done"
            /\ UNCHANGED <<result, merged, resp, gres>>
    /\ UNCHANGED <<token, call, pos, net, sent>>

\* usernames: the chunks are exhausted, Ok(result)
UsernamesReturn ==
    /\ pc = "loop"
    /\ call.op = "usernames"
    /\ pos >= Len(call.ids)
    /\ ret' = Some(Ok(result))
    /\ pc' = "done"
    /\ UNCHANGED <<token, call, pos, result, merged, net, sent, resp, gres>>

\* the steps that do not depend on the identifier lists and answers chosen
Step ==
    \/ CallRequireAuth
    \/ pc = "idle" /\ \E ra \in BOOLEAN, m \in Methods, u \in Urls : CallPrepare(ra, m, u)
    \/ pc = "idle" /\ \E l \in Logins : CallUser(l)
    \/ pc = "wait" /\ \E r \in UserResponses : UserReceive(r)
    \/ pc = "idle" /\ \E v \in GraphqlVariables : CallGraphql(v)
    \/ GraphqlReturn
    \/ UsernamesChunk
    \/ UsernamesMerge
    \/ UsernamesReturn

\* lists with a length next to a chunk boundary, every answer
Next ==
    \/ Step
    \/ pc = "idle" /\ \E ids \in BoundaryLists : CallUsernames(ids)
    \/ pc = "wait" /\ \E r \in GraphqlResponses : GraphqlReceive(r)

Spec == Init /\ [][Next]_vars

\* lists of every length, the small set of answers
NextLen ==
    \/ Step
    \/ pc = "idle" /\ \E ids \in AllLists : CallUsernames(ids)
    \/ pc = "wait" /\ \E r \in PlainResponses : GraphqlReceive(r)

SpecLen == Init /\ [][NextLen]_vars

----------------------------------------------------------------------------
(* Vocabulary of the properties *)

IsUsernames == call.op = "usernames"

\* the call is one that requires authentication
NeedsAuth ==
    \/ call.op \in {"graphql", "usernames"}
    \/ call.op = "prepare" /\ call.require_auth

MissingCredential == Err("config", "missing environment variable GITHUB_TOKEN")

\* the identifier array of the k-th request sent
SentIds(k) == sent[k].body.val.variables.ids

RECURSIVE ConcatSent(_)
ConcatSent(k) == IF k = 0 THEN <<>> ELSE ConcatSent(k - 1) \o SentIds(k)

\* the node identifiers of a list of ids, in order
Encoded(ids) == [i \in 1..Len(ids) |-> user_node_id(ids[i])]

\* usernames has returned a mapping
ReturnedMapping == IsUsernames /\ pc = "done" /\ ret.val.ok

\* a decodable answer with a status graphql lets through is being unwrapped
Decoded ==
    /\ resp.some /\ gres.some
    /\ resp.val.kind = "response"
    /\ resp.val.status \notin 400..599
    /\ resp.val.body.json

\* the nodes of a chunk are about to be merged
MergeStep == IsUsernames /\ pc = "got" /\ gres.val.ok

NonNull(ns) == {i \in 1..Len(ns) : ns[i].some}
Pairs(m) == {<<k, m[k]>> : k \in DOMAIN m}
NodePairs(ns) == {<<ns[i].val.database_id, ns[i].val.login>> : i \in NonNull(ns)}
NodeIds(ns) == {ns[i].val.database_id : i \in NonNull(ns)}
\* the position of the last node of ns with databaseId k
LastWith(ns, k) ==
    CHOOSE i \in NonNull(ns) :
        /\ ns[i].val.database_id = k
        /\ \A j \in NonNull(ns) : ns[j].val.database_id = k => j <= i

----------------------------------------------------------------------------
(* C1 *)

\* C1: for every decoded envelope graphql resolves in this order: a
\* non-empty errors array gives a GraphQL error carrying the message of
\* errors[1] (the first), whatever data holds and however many errors
\* follow; otherwise present data is returned; otherwise the call fails
\* with the missing-data error.
C1_Precedence ==
    Decoded =>
        LET env == resp.val.body.value
            out == gres.val
        IN  /\ Len(env.errors) > 0 =>
                /\ ~out.ok
                /\ out.kind = "graphql"
                /\ out.msg = "graphql error: " \o Head(env.errors).message
            /\ (Len(env.errors) = 0 /\ env.data.some) => out = Ok(env.data.val)
            /\ (Len(env.errors) = 0 /\ ~env.data.some) =>
                out = Err("missing", "missing graphql data")

\* data present, two errors, and the first message is the one reported
C1_Witness ==
    /\ Decoded
    /\ resp.val.body.value.data.some
    /\ Len(resp.val.body.value.errors) = 2
    /\ resp.val.body.value.errors[1].message = "second"
    /\ resp.val.body.value.errors[2].message = "first"
    /\ gres.val = Err("graphql", "graphql error: second")
    /\ call.op = "graphql" /\ pc = "done" /\ ret = gres

----------------------------------------------------------------------------
(* C2 *)

\* C2 as stated: with no credential every call that requires
\* authentication (prepare with require_auth, graphql, usernames) fails
\* with the missing-credential error and sends nothing.
C2_Original ==
    (~token.some /\ NeedsAuth) =>
        /\ sent = <<>> /\ net = <<>>
        /\ pc = "done" => ret.val = MissingCredential

\* C2 amended: with no credential, prepare with require_auth, graphql, and
\* usernames on a non-empty list fail with the missing-credential error;
\* usernames on the empty list queries nothing and returns the empty
\* mapping; in every case no request is sent.
C2_NoCredential ==
    (~token.some /\ NeedsAuth) =>
        /\ sent = <<>> /\ net = <<>>
        /\ pc = "done" =>
            IF IsUsernames /\ Len(call.ids) = 0
            THEN ret.val = Ok(<<>>)
            ELSE ret.val = MissingCredential

\* usernames on more than one chunk of ids has failed for want of a credential
C2_Witness ==
    /\ ~token.some
    /\ IsUsernames /\ Len(call.ids) > 100
    /\ pc = "done"
    /\ ret.val = MissingCredential
    /\ sent = <<>>

----------------------------------------------------------------------------
(* C3 *)

\* C3 as stated: with a credential and every query succeeding, one GraphQL
\* call for a list of 0 to 100 ids, two for 101 to 200, the second holding
\* the ids after the first 100.
C3_Original ==
    (ReturnedMapping /\ token.some) =>
        LET n == Len(call.ids)
        IN  /\ n <= 100 => Len(sent) = 1
            /\ (n >= 101 /\ n <= 200) =>
                /\ Len(sent) = 2
                /\ SentIds(2) = Encoded(SubSeq(call.ids, 101, n))

\* C3 amended: with a credential and every query succeeding, usernames
\* issues no GraphQL call for the empty list, exactly one for a list of 1 to
\* 100 ids, and exactly two for 101 to 200, the second holding only the ids
\* after the first 100.
C3_CallCount ==
    (ReturnedMapping /\ token.some) =>
        LET n == Len(call.ids)
        IN  /\ n = 0 => Len(sent) = 0
            /\ (n >= 1 /\ n <= 100) => Len(sent) = 1
            /\ (n >= 101 /\ n <= 200) =>
                /\ Len(sent) = 2
                /\ SentIds(2) = Encoded(SubSeq(call.ids, 101, n))

\* 150 ids resolved with two calls, the second with the last 50
C3_Witness ==
    /\ ReturnedMapping /\ token.some
    /\ Len(call.ids) = 150
    /\ Len(sent) = 2
    /\ Len(SentIds(2)) = 50
    /\ SentIds(2)[1] = user_node_id(call.ids[101])

----------------------------------------------------------------------------
(* C4 *)

\* C4: when every chunk query succeeds, each identifier array sent holds
\* at most 100 identifiers, and the arrays, concatenated in the order
\* sent, are the input list (each id as its node identifier): same
\* elements, same order, nothing dropped or duplicated.
C4_StablePartition ==
    ReturnedMapping =>
        /\ \A k \in 1..Len(sent) : Len(SentIds(k)) <= 100
        /\ ConcatSent(Len(sent)) = Encoded(call.ids)

\* three chunks: 100, 100 and 1 ids of a list with repeated ids
C4_Witness ==
    /\ ReturnedMapping
    /\ Len(call.ids) = 201
    /\ call.ids[1] = call.ids[4] /\ call.ids[1] # call.ids[2]
    /\ Len(sent) = 3
    /\ Len(SentIds(1)) = 100 /\ Len(SentIds(3)) = 1

----------------------------------------------------------------------------
(* C5 *)

\* C5: when the query of a chunk fails, usernames returns that failure and
\* no mapping (what earlier chunks merged is not returned), and sends no
\* request for a later chunk.
C5_FailFast ==
    /\ [][(IsUsernames /\ pc = "got" /\ ~gres.val.ok) =>
            /\ pc' = "done"
            /\ ret' = Some(Err(gres.val.kind, gres.val.msg))
            /\ sent' = sent /\ net' = net]_vars
    /\ [][pc = "done" => (sent' = sent /\ net' = net /\ ret' = ret)]_vars
    /\ [](IsUsernames /\ pc = "done" /\ gres.some =>
            /\ ~ret.val.ok
            /\ ret.val = gres.val
            /\ net = <<>>
            /\ Len(sent) <= merged + 1)

\* the second chunk failed after the first had put entries in the mapping
C5_Witness ==
    /\ IsUsernames /\ pc = "done"
    /\ merged = 1 /\ DOMAIN result # {}
    /\ Len(sent) = 2 /\ Len(call.ids) = 201
    /\ ~ret.val.ok /\ ret.val.kind = "graphql"

----------------------------------------------------------------------------
(* C6 *)

\* C6 as stated, chunk by chunk: merging a chunk's nodes never fails, and
\* the entries of the mapping are then exactly the pairs databaseId ->
\* login of the non-null nodes received so far.  (The mapping starts
\* empty and the answers do not depend on the ids, so this says the same
\* as the statement about the mapping returned.)
C6_Original ==
    [][MergeStep =>
        /\ pc' = "loop"
        /\ Pairs(result') = Pairs(result) \cup NodePairs(gres.val.val.nodes)]_vars

\* C6 amended: absent nodes are skipped and never cause failure; when all
\* chunk queries succeed the mapping returned has one entry for each
\* databaseId among the non-null nodes received, carrying the login of the
\* last such node in processing order, and no other entry.  Stated chunk
\* by chunk: the mapping starts empty, a merge adds or overwrites exactly
\* the databaseIds of the chunk's non-null nodes, and what usernames
\* returns is the mapping so built.
C6_SkipNull ==
    /\ [][MergeStep =>
            LET ns == gres.val.val.nodes
            IN  /\ pc' = "loop"
                /\ DOMAIN result' = (DOMAIN result) \cup NodeIds(ns)
                /\ \A k \in NodeIds(ns) :
                       result'[k] = ns[LastWith(ns, k)].val.login
                /\ \A k \in (DOMAIN result) \ NodeIds(ns) :
                       result'[k] = result[k]]_vars
    /\ [](IsUsernames /\ merged = 0 => DOMAIN result = {})
    /\ [](ReturnedMapping => ret.val.val = result)

\* the second chunk's answer holds the nodes [null, {2, bob}] and is about
\* to be merged into the mapping {1: alice} that the first chunk left
C6_Witness ==
    /\ IsUsernames /\ pc = "got" /\ gres.val.ok
    /\ gres.val.val.nodes = <<None, Node(2, "bob")>>
    /\ merged = 1 /\ Len(sent) = 2
    /\ Pairs(result) = {<<1, "alice">>}

----------------------------------------------------------------------------
(* C7 *)

\* the bytes of "token s3cr3t"
TokenS3cr3t == <<116, 111, 107, 101, 110, 32, 115, 51, 99, 114, 51, 116>>

\* C7: every request prepare builds carries the header authorization:
\* token <credential> exactly when a credential is configured, whether or
\* not authentication is required; user(login) sends the header when there
\* is a credential and sends its request without the header, rather than
\* failing, when there is none.
C7_AuthHeader ==
    LET header == IF token.some
                  THEN Some(<<116, 111, 107, 101, 110, 32>> \o token.val)
                  ELSE None
    IN  /\ \A k \in 1..Len(sent) : sent[k].authorization = header
        /\ (call.op = "prepare" /\ ret.val.ok) => ret.val.val.authorization = header
        /\ (call.op = "user" /\ ~token.some) =>
               /\ Len(sent) = 1
               /\ ~sent[1].authorization.some
               /\ pc = "done" => (~ret.val.ok => ret.val.kind \in {"send", "status", "decode"})
        /\ (call.op = "user" /\ token = Some(<<115, 51, 99, 114, 51, 116>>)) =>
               /\ Len(sent) = 1
               /\ sent[1].authorization = Some(TokenS3cr3t)

\* user sent its request with the header although it requires no credential
C7_Witness ==
    /\ call.op = "user"
    /\ token.some
    /\ Len(sent) = 1
    /\ sent[1].method = "GET"
    /\ sent[1].url = "https://api.github.com/users/octocat"
    /\ sent[1].authorization = Some(TokenS3cr3t)
    /\ pc = "done" /\ ret.val.ok

----------------------------------------------------------------------------
(* C8 *)

\* a response has been received
Answered == resp.some /\ gres.some /\ resp.val.kind = "response"

\* C8 as stated: a response whose status is not a success status (2xx)
\* always fails with the transport error for the status, whatever its body.
C8_Original ==
    (Answered /\ resp.val.status \notin 200..299) =>
        /\ ~gres.val.ok
        /\ gres.val.kind = "status"

\* C8 amended: graphql checks the status before decoding the body: a
\* response with a client or server error status (4xx or 5xx) always fails
\* with the transport error for the status, never with a graphql error, a
\* missing-data error or a result, even when its body is a well-formed
\* envelope with errors or data.
C8_ErrorStatus ==
    (Answered /\ resp.val.status \in 400..599) =>
        /\ ~gres.val.ok
        /\ gres.val.kind = "status"
        /\ pc = "done" => ret.val = gres.val

\* status 500 with an envelope holding both data and errors
C8_Witness ==
    /\ Answered
    /\ resp.val.status = 500
    /\ resp.val.body.json
    /\ resp.val.body.value.data.some
    /\ Len(resp.val.body.value.errors) > 0
    /\ gres.val.kind = "status"
    /\ IsUsernames /\ pc = "done" /\ merged = 1

----------------------------------------------------------------------------
(* C9 *)

\* C9: within one usernames call at most one request is in flight, the
\* chunks are queried in input order, and the request for chunk k+1 is
\* sent only after the answer for chunk k has been received, decoded and
\* merged.
C9_Sequential ==
    IsUsernames =>
        LET n == Len(call.ids)
        IN  /\ Len(net) <= 1
            /\ Len(sent) <= merged + 1
            /\ merged <= Len(sent)
            /\ Len(net) = 1 =>
                   /\ pc = "wait"
                   /\ Len(sent) = merged + 1
                   /\ net[1] = sent[Len(sent)]
            /\ \A k \in 1..Len(sent) :
                   SentIds(k) =
                       Encoded(SubSeq(call.ids, 100 * (k - 1) + 1, Min(100 * k, n)))

\* the third chunk is in flight and two chunks have been merged
C9_Witness ==
    /\ IsUsernames
    /\ pc = "wait"
    /\ Len(net) = 1 /\ Len(sent) = 3 /\ merged = 2
    /\ DOMAIN result = {1, 2}

----------------------------------------------------------------------------
(* C10 *)

\* C10: the mapping is keyed by the databaseId of the nodes returned, not
\* by the ids requested or their position, and a node list of any length
\* is accepted; of the nodes with one databaseId the last in processing
\* order (chunk order, then position in the node list) gives the login,
\* so the mapping never has more entries than non-null nodes were
\* received.  Stated chunk by chunk, with the mapping returned being the
\* one so built.
C10_LastWins ==
    /\ [][MergeStep =>
            LET ns == gres.val.val.nodes
            IN  /\ pc' = "loop"
                /\ \A i \in NonNull(ns) :
                       LET k == ns[i].val.database_id
                       IN  /\ k \in DOMAIN result'
                           /\ (\A j \in NonNull(ns) :
                                  ns[j].val.database_id = k => j <= i)
                              => result'[k] = ns[i].val.login
                /\ DOMAIN result' \subseteq (DOMAIN result) \cup NodeIds(ns)
                /\ Cardinality(DOMAIN result')
                       <= Cardinality(DOMAIN result) + Cardinality(NonNull(ns))]_vars
    /\ [](ReturnedMapping => ret.val.val = result)

\* one id requested, two nodes returned, the second chunk's login for
\* databaseId 1 replaced the first chunk's
C10_Witness ==
    /\ IsUsernames /\ pc = "got" /\ gres.val.ok
    /\ merged = 1
    /\ Pairs(result) = {<<1, "alice">>, <<2, "bob">>}
    /\ gres.val.val.nodes = <<Node(1, "alice"), Node(1, "al")>>
    /\ Len(call.ids) = 101

====
